---- MODULE Spec2Model ----
(***************************************************************************)
(* Cross-modal retrieval engine of the website repository:                 *)
(*   src/app/ear/engine.py           EarEngine (index build, cache, query) *)
(*   src/app/blueprints/ear/routes.py get_engine / query_endpoint          *)
(* and its portfolio administration:                                       *)
(*   src/app/portfolio/store.py      PortfolioStore (JSON data file)       *)
(*   src/app/blueprints/admin/routes.py login, logout, portfolio views     *)
(*                                                                         *)
(* Embeddings are unit vectors in fixed point: a vector <<x, y>> stands    *)
(* for (x/65, y/65), so that x*x + y*y = 65*65 and an inner product d      *)
(* stands for the cosine similarity d / (65*65).  Scores are kept in       *)
(* thousandths: round(score, 3) = 0.969 is the integer 969.                *)
(***************************************************************************)
EXTENDS Integers, Sequences, FiniteSets, TLC

VARIABLES
    s_metadata,   \* search harness: EarEngine.db_metadata
    s_tensor,     \* search harness: EarEngine.db_tensor (one row per item)
    s_pc,         \* search harness: "ready" before the query, "done" after it
    s_query,      \* search harness: modality and embedding of the query
    s_ranking,    \* search harness: the indices torch.topk returned
    s_out,        \* search harness: the dict _handle_query returned
    base_dir_exists,  \* disk: the ear data directory exists
    model_exists,     \* disk: pretrained_models/best_audio_visual_clip.pt exists
    dataset,          \* disk: the files under dataset/audio and dataset/frames
    cache,            \* disk: the cache artifact indexed_db.pt
    uploads,          \* disk: the files in the upload folder
    data_url_prefix,  \* EarEngine.data_url_prefix of this deployment
    engine,           \* routes._engine
    engine_error,     \* routes._engine_error
    pc,               \* per request thread: where it is in query_endpoint
    req,              \* per request thread: the request it serves
    eng,              \* per request thread: the EarEngine it builds or was given
    resp,             \* per request thread: the response it is about to send
    attempts,         \* history: entries into the try block of get_engine
    constructions,    \* history: calls of EarEngine(...) in this process
    restarts,         \* history: process restarts so far
    portfolio_json,   \* disk: the data file of PortfolioStore (self._path)
    portfolio_tmp,    \* disk: the file at temp_path of PortfolioStore._write
    STORE_LOCK,       \* store._STORE_LOCK: the caller that holds it, or 0
    p_pc,             \* per store caller: where it is in its call
    p_call,           \* per store caller: the method and its arguments
    p_data,           \* per store caller: the local `data["items"]`
    p_ret,            \* per store caller: what the call returns
    uuids,            \* history: uuid4 values drawn so far
    created,          \* history: ids of the items create_item returned
    deleted,          \* history: ids for which delete_item returned True
    admin_configured, \* _admin_configured()
    issued,           \* the session cookies the server has sent to clients
    tokens,           \* history: secrets.token_urlsafe values drawn so far
    logged_out,       \* history: the cookies a successful logout was sent for
    a_req             \* history: the last admin request and what it did

svars == <<s_metadata, s_tensor, s_pc, s_query, s_ranking, s_out>>

disk == <<base_dir_exists, model_exists, dataset>>

evars == <<base_dir_exists, model_exists, dataset, cache, uploads,
           data_url_prefix, engine, engine_error, pc, req, eng, resp,
           attempts, constructions, restarts>>

\* The variables of the portfolio store and of the admin views.
pvars == <<portfolio_json, portfolio_tmp, STORE_LOCK, p_pc, p_call, p_data,
           p_ret, uuids, created, deleted>>

avars == <<admin_configured, issued, tokens, logged_out, a_req>>

vars == <<s_metadata, s_tensor, s_pc, s_query, s_ranking, s_out,
          base_dir_exists, model_exists, dataset, cache, uploads,
          data_url_prefix, engine, engine_error, pc, req, eng, resp,
          attempts, constructions, restarts,
          portfolio_json, portfolio_tmp, STORE_LOCK, p_pc, p_call, p_data,
          p_ret, uuids, created, deleted,
          admin_configured, issued, tokens, logged_out, a_req>>

None == "None"

(***************************************************************************)
(* Bounds of the model.                                                    *)
(***************************************************************************)
\* Items of one modality in an index of the search harness.
MaxImage == 6
MaxAudio == 1
\* Files of the search harness whose content duplicates an earlier file.
MaxDup == 1
\* Request threads of the web process.
NumThreads == 2
\* Candidate files of the dataset folder.
MaxFiles == 3
\* Restarts of the web process.
MaxRestarts == 1
\* Concurrent callers of the portfolio store.
NumCallers == 2
\* Portfolio items ever created (uuid4 values drawn).
MaxItems == 2
\* CSRF tokens ever generated (secrets.token_urlsafe values drawn).
MaxTokens == 2

(***************************************************************************)
(* Program constants.                                                      *)
(***************************************************************************)
\* torch.topk(similarities, min(100, len(self.db_metadata)))
K_TOTAL == 100
\* if len(same_modality_results) < 5 / len(cross_modality_results) < 5
K_PER_BUCKET == 5

Modalities == {"audio", "image"}

\* The squared norm of every embedding (F.normalize in ProjectionHead).
NormSq == 65 * 65

\* Unit vectors the encoder can return, one per distinct media content.
EmbList ==
    <<  <<33, 56>>, <<65, 0>>, <<56, 33>>, <<0, 65>>, <<63, 16>>, <<16, 63>>,
        <<52, 39>>, <<39, 52>>, <<60, 25>>, <<25, 60>>, <<-65, 0>>, <<-63, 16>> >>

Min(a, b) == IF a < b THEN a ELSE b

\* The dimension of the embeddings the encoder of this deployment produces
\* (embed_dim of AudioVisualCLIP).
EmbDim == Len(EmbList[1])

\* query_emb @ row
Dot(u, v) == u[1] * v[1] + u[2] * v[2]

\* round(score.item(), 3), in thousandths.  NormSq is odd, so no inner
\* product lies exactly half way between two thousandths.
Round3(d) == (2000 * d + NormSq) \div (2 * NormSq)

\* similarities = (query_emb @ self.db_tensor.T).squeeze(0)
Similarities(query_emb, db_tensor) ==
    [i \in 1..Len(db_tensor) |-> Dot(query_emb, db_tensor[i])]

\* Mutation of ArgMax: the smallest similarity first (an ascending top-k).
ArgMaxAscending(sims, rest) == {i \in rest : \A j \in rest : sims[i] <= sims[j]}

\* The indices of `rest` with the largest similarity.
ArgMax(sims, rest) == {i \in rest : \A j \in rest : sims[j] <= sims[i]}

\* torch.topk(similarities, k): every sequence of k distinct indices in
\* descending order of similarity.  torch.topk does not promise an order
\* among equal values, so each order of tied elements is an outcome.
RECURSIVE TopKFrom(_, _, _)
TopKFrom(sims, rest, k) ==
    IF k = 0 \/ rest = {}
    THEN {<<>>}
    ELSE UNION {{<<i>> \o r : r \in TopKFrom(sims, rest \ {i}, k - 1)} :
                i \in ArgMax(sims, rest)}

TopK(sims, k) == TopKFrom(sims, DOMAIN sims, k)

\* result_obj of the bucket loop.
ResultObj(item, d) ==
    [type |-> item.type, url |-> item.url, label |-> item.label,
     score |-> Round3(d)]

\* Mutation of SameHasRoom: an off-by-one in the cap of the bucket.
SameHasRoomOffByOne(same) == Len(same) <= K_PER_BUCKET

\* if len(same_modality_results) < 5
SameHasRoom(same) == Len(same) < K_PER_BUCKET

\* Mutation of CrossHasRoom: the cross-modality bucket closes one entry
\* early.
CrossHasRoomOneLess(cross) == Len(cross) < K_PER_BUCKET - 1

\* if len(cross_modality_results) < 5
CrossHasRoom(cross) == Len(cross) < K_PER_BUCKET

\* The loop `for score, idx in zip(topk_scores, topk_indices)` from position
\* pos on, with the buckets filled so far.
RECURSIVE BucketWalk(_, _, _, _, _, _, _)
BucketWalk(db_metadata, sims, ranking, query_type, pos, same, cross) ==
    IF pos > Len(ranking)
    THEN [same_modality |-> same, cross_modality |-> cross]
    ELSE LET idx  == ranking[pos]
             item == db_metadata[idx]
             obj  == ResultObj(item, sims[idx])
             same2 == IF item.type = query_type /\ SameHasRoom(same)
                      THEN Append(same, obj) ELSE same
             cross2 == IF item.type # query_type /\ CrossHasRoom(cross)
                       THEN Append(cross, obj) ELSE cross
         IN  IF Len(same2) >= K_PER_BUCKET /\ Len(cross2) >= K_PER_BUCKET
             THEN [same_modality |-> same2, cross_modality |-> cross2]
             ELSE BucketWalk(db_metadata, sims, ranking, query_type,
                             pos + 1, same2, cross2)

\* The part of _handle_query after the embedding: similarity, top-k, buckets.
SearchResult(db_metadata, db_tensor, query_type, query_emb, ranking) ==
    LET sims == Similarities(query_emb, db_tensor)
        b    == BucketWalk(db_metadata, sims, ranking, query_type, 1, <<>>, <<>>)
    IN  [query_type |-> query_type,
         same_modality |-> b.same_modality,
         cross_modality |-> b.cross_modality]

\* Mutation of Rankings: the top-k stops one candidate short.
RankingsOneShort(db_metadata, db_tensor, query_emb) ==
    TopK(Similarities(query_emb, db_tensor),
         Min(K_TOTAL, Len(db_metadata)) - 1)

\* The rankings torch.topk can return for a query on an index.
Rankings(db_metadata, db_tensor, query_emb) ==
    TopK(Similarities(query_emb, db_tensor), Min(K_TOTAL, Len(db_metadata)))

\* File names of the dataset folder.
ItemNames ==
    <<"n1", "n2", "n3", "n4", "n5", "n6", "n7", "n8", "n9", "n10", "n11", "n12">>

\* No query yet, and the empty result.
NoQuery == [type |-> "none", emb |-> <<0, 0>>]
NoOut == [query_type |-> "none", same_modality |-> <<>>, cross_modality |-> <<>>]

(***************************************************************************)
(* The index: metadata items, the data URL prefix, rebuild and cache.      *)
(* A URL or a relative path is the sequence of its segments: the URL       *)
(* "/ear/data/frames/a/x.jpg" is <<"ear", "data", "frames", "a", "x.jpg">>.*)
(***************************************************************************)
Threads == 1..NumThreads

\* data_url_prefix="/ear/data", as routes.get_engine passes it.
DeployedPrefix == <<"ear", "data">>

\* Values of data_url_prefix (after rstrip("/")) over the deployments of the
\* engine: the one routes.get_engine passes, and one with no "data" segment.
Prefixes == {DeployedPrefix, <<"media">>}

\* The directory of candidate file k below dataset/audio or dataset/frames
\* ("" for a file directly in the subtree).
SubDirs == <<"drums", "", "piano", "data">>

\* Candidate file k of the dataset folder: odd files are audio, even files
\* are images, and every third file fails to decode.
FileAt(k) ==
    LET type == IF k % 2 = 1 THEN "audio" ELSE "image"
        top  == IF type = "audio" THEN "audio" ELSE "frames"
        dir  == SubDirs[((k - 1) % Len(SubDirs)) + 1]
    IN  [type |-> type,
         rel  |-> IF dir = "" THEN <<top, ItemNames[k]>>
                               ELSE <<top, dir, ItemNames[k]>>,
         ok   |-> k % 3 # 0,
         emb  |-> EmbList[k]]

RECURSIVE FilesOf(_, _)
\* The files of `chosen` among candidates k..MaxFiles, in ascending order.
FilesOf(chosen, k) ==
    IF k > MaxFiles THEN <<>>
    ELSE (IF k \in chosen THEN <<FileAt(k)>> ELSE <<>>) \o FilesOf(chosen, k + 1)

\* The dataset folders the model starts from.
Datasets == {FilesOf(chosen, 1) : chosen \in SUBSET (1..MaxFiles)}

\* glob.glob(dataset_root/audio/**/*.wav) and glob.glob(dataset_root/frames/**/*.jpg)
AudioFiles(files) == SelectSeq(files, LAMBDA f : f.type = "audio")
ImageFiles(files) == SelectSeq(files, LAMBDA f : f.type = "image")

\* The metadata dict of one indexed file.
MetadataItem(f, prefix) ==
    [type |-> f.type, url |-> prefix \o f.rel, label |-> f.rel[2]]

\* Mutation of IndexOne: the metadata item is appended before the file is
\* decoded and embedded, so a file that fails leaves an item without a row.
IndexOneMetadataFirst(acc, f, prefix) ==
    [metadata   |-> Append(acc.metadata, MetadataItem(f, prefix)),
     embeddings |-> IF f.ok THEN Append(acc.embeddings, f.emb) ELSE acc.embeddings]

\* Mutation of IndexOne: a file that fails discards what was indexed
\* before it.
IndexOneFailureClears(acc, f, prefix) ==
    IF f.ok
    THEN [metadata   |-> Append(acc.metadata, MetadataItem(f, prefix)),
          embeddings |-> Append(acc.embeddings, f.emb)]
    ELSE [metadata |-> <<>>, embeddings |-> <<>>]

\* One iteration of a loop of _index_dataset: a file that fails to load or
\* embed is skipped, any other appends one item and one embedding.
IndexOne(acc, f, prefix) ==
    IF f.ok
    THEN [metadata   |-> Append(acc.metadata, MetadataItem(f, prefix)),
          embeddings |-> Append(acc.embeddings, f.emb)]
    ELSE acc

RECURSIVE IndexFiles(_, _, _, _)
\* A loop of _index_dataset over `files` from position k on.
IndexFiles(acc, files, k, prefix) ==
    IF k > Len(files) THEN acc
    ELSE IndexFiles(IndexOne(acc, files[k], prefix), files, k + 1, prefix)

\* The two loops of _index_dataset: audio files, then image files.
IndexDataset(files, prefix) ==
    IndexFiles(IndexFiles([metadata |-> <<>>, embeddings |-> <<>>],
                          AudioFiles(files), 1, prefix),
               ImageFiles(files), 1, prefix)

\* The positions i of url with "/data/" right after segment i - 1, that is
\* where url.split("/data/", 1) can cut.
DataCuts(url) == {i \in 1..(Len(url) - 1) : url[i] = "data"}

\* rel of _apply_data_prefix: what follows the first "/data/", else the URL
\* without its leading "/".
RelOfUrl(url) ==
    IF DataCuts(url) # {}
    THEN LET i == CHOOSE c \in DataCuts(url) : \A d \in DataCuts(url) : c <= d
         IN  SubSeq(url, i + 1, Len(url))
    ELSE url

\* Mutation of ApplyDataPrefix: the items keep the locator they were stored
\* with.
ApplyDataPrefixStale(metadata, prefix) == metadata

\* EarEngine._apply_data_prefix
ApplyDataPrefix(metadata, prefix) ==
    [i \in 1..Len(metadata) |->
        IF RelOfUrl(metadata[i].url) # <<>>
        THEN [metadata[i] EXCEPT !.url = prefix \o RelOfUrl(metadata[i].url)]
        ELSE metadata[i]]

\* An index: what torch.save writes and torch.load reads back.
NoIndex == [metadata |-> <<>>, tensor |-> <<>>]

\* routes._engine = None; also the EarEngine before _index_dataset has run.
NoEngine ==
    [id |-> 0, db_metadata |-> <<>>, db_tensor |-> <<>>,
     source |-> "none", origin |-> NoIndex]

\* The cache artifact: absent, being written ("partial"), unreadable
\* ("corrupt") or a complete torch.save of an index ("ok").
NoCache == [state |-> "absent", index |-> NoIndex]

\* A readable cache artifact written with an encoder of another embedding
\* dimension: one image item and its row of three components.
StaleCache ==
    [state |-> "ok",
     index |-> [metadata |-> <<[type |-> "image",
                                url |-> <<"ear", "data", "frames", "old", "n12">>,
                                label |-> "old"]>>,
                tensor |-> <<(<<25, 60, 0>>)>>]]

\* A URL from which _apply_data_prefix derives no relative path: the empty
\* string, or one with no leading "/" and no "/data/" in it.
NoLocator == <<>>

\* A readable cache artifact that was not written by this engine (service.py
\* expects indexed_db.pt to be uploaded): one audio item with such a URL.
LegacyCache ==
    [state |-> "ok",
     index |-> [metadata |-> <<[type |-> "audio",
                                url |-> NoLocator,
                                label |-> "legacy"]>>,
                tensor |-> <<EmbList[12]>>]]

\* A readable cache artifact whose two entries do not agree in length: one
\* image item and two rows.  Lines 157-159 take "metadata" and "tensor" from
\* the artifact as they are.
RaggedCache ==
    [state |-> "ok",
     index |-> [metadata |-> <<[type |-> "image",
                                url |-> <<"ear", "data", "frames", "old", "n11">>,
                                label |-> "old"]>>,
                tensor |-> <<EmbList[5], EmbList[4]>>]]

\* The cache artifacts a deployment can find before its first run: none, an
\* unreadable one, a readable one that holds no item, one written with
\* another encoder, one not written by this engine, and one whose entries
\* differ in length.
InitialCaches ==
    {NoCache,
     [state |-> "corrupt", index |-> NoIndex],
     [state |-> "ok", index |-> NoIndex],
     StaleCache,
     LegacyCache,
     RaggedCache}

\* File names of uploads: stem and extension.
NoName == [stem |-> "", ext |-> ""]

\* Mutation of Lower: the extension is compared as the client wrote it.
LowerAsWritten(ext) == ext

\* filename.lower() on the extensions of the model.
Lower(ext) == IF ext = "JPG" THEN "jpg" ELSE ext

\* filename.endswith((".jpg", ".jpeg", ".png"))
ImageExts == {"jpg", "jpeg", "png"}
\* filename.endswith((".wav", ".mp3", ".webm", ".mp4", ".m4a"))
AudioExts == {"wav", "mp3", "webm", "mp4", "m4a"}

\* The requests a client can send to POST /ear/query.
NoRequest ==
    [has_file |-> FALSE, filename |-> NoName, ok |-> FALSE, emb |-> <<0, 0>>]

Requests ==
    {NoRequest,
     [has_file |-> TRUE, filename |-> NoName, ok |-> TRUE, emb |-> EmbList[2]],
     [has_file |-> TRUE, filename |-> [stem |-> "notes", ext |-> "txt"],
      ok |-> FALSE, emb |-> <<0, 0>>],
     [has_file |-> TRUE, filename |-> [stem |-> "cat", ext |-> "JPG"],
      ok |-> TRUE, emb |-> EmbList[2]],
     [has_file |-> TRUE, filename |-> [stem |-> "cat", ext |-> "jpg"],
      ok |-> FALSE, emb |-> <<0, 0>>],
     [has_file |-> TRUE, filename |-> [stem |-> "rec", ext |-> "wav"],
      ok |-> TRUE, emb |-> EmbList[1]]}

\* A response of query_endpoint: HTTP status, what it reports, the stored
\* _engine_error it quotes, and the result of a successful query.
NoResponse == [status |-> 0, kind |-> "none", detail |-> None, result |-> NoOut]

Response(status, kind) ==
    [status |-> status, kind |-> kind, detail |-> None, result |-> NoOut]

(***************************************************************************)
(* Portfolio store: the data file holds the list data["items"]; an item    *)
(* of the model keeps the fields id, title, sort_order and is_published.   *)
(***************************************************************************)
Callers == 1..NumCallers

\* A file that does not exist, and a file that holds the item list `items`.
NoFile == [exists |-> FALSE, items |-> <<>>]

FileOf(items) == [exists |-> TRUE, items |-> items]

\* payload.get("sort_order") is None
NoOrder == -1

\* The payloads of create_item and update_item.
Payloads ==
    {[title |-> "a", sort_order |-> NoOrder, is_published |-> TRUE],
     [title |-> "b", sort_order |-> 0, is_published |-> FALSE]}

NoPayload == [title |-> "", sort_order |-> NoOrder, is_published |-> FALSE]

\* No call, and no return value yet.
NoCall == [op |-> "none", id |-> 0, payload |-> NoPayload, all |-> FALSE]

NoReturn == [kind |-> "none", items |-> <<>>]

\* What a call returns: a list of items, one item, None, True, False, or
\* the exception it raised.
Returns(kind, items) == [kind |-> kind, items |-> items]

RECURSIVE MaxOrder(_, _)
\* max(int(item.get("sort_order", 0)) for item in items), from position k.
MaxOrder(items, k) ==
    IF k > Len(items) THEN 0
    ELSE LET rest == MaxOrder(items, k + 1)
         IN  IF k = Len(items) \/ items[k].sort_order > rest
             THEN items[k].sort_order ELSE rest

\* PortfolioStore._next_sort_order
NextSortOrder(items) == IF items = <<>> THEN 0 ELSE MaxOrder(items, 1) + 1

\* The item create_item builds from the payload and a new uuid.
NewItem(id, payload, items) ==
    [id |-> id,
     title |-> payload.title,
     sort_order |-> IF payload.sort_order = NoOrder
                    THEN NextSortOrder(items) ELSE payload.sort_order,
     is_published |-> payload.is_published]

\* The positions of the items with this id.
PositionsOfId(items, id) == {i \in 1..Len(items) : items[i].id = id}

\* The loop of update_item: the first item with the id takes the fields of
\* the payload.
UpdatedItems(items, id, payload) ==
    LET idx == CHOOSE i \in PositionsOfId(items, id) :
                   \A j \in PositionsOfId(items, id) : i <= j
    IN  [items EXCEPT ![idx] =
            [id |-> items[idx].id,
             title |-> payload.title,
             sort_order |-> IF payload.sort_order # NoOrder
                            THEN payload.sort_order ELSE items[idx].sort_order,
             is_published |-> payload.is_published]]

\* filtered of delete_item
Filtered(items, id) == SelectSeq(items, LAMBDA item : item.id # id)

RECURSIVE SortedByOrder(_)
\* items.sort(key=lambda item: item.sort_order): a stable sort.
SortedByOrder(items) ==
    IF items = <<>> THEN <<>>
    ELSE LET n    == Len(items)
             last == items[n]
             head == SortedByOrder(SubSeq(items, 1, n - 1))
             le   == SelectSeq(head, LAMBDA item : item.sort_order <= last.sort_order)
             gt   == SelectSeq(head, LAMBDA item : item.sort_order > last.sort_order)
         IN  le \o <<last>> \o gt

\* What list_items returns for the item list it read.
Listed(items, include_unpublished) ==
    SortedByOrder(IF include_unpublished THEN items
                  ELSE SelectSeq(items, LAMBDA item : item.is_published))

\* What get_item returns for the item list it read.
Got(items, id) ==
    IF PositionsOfId(items, id) = {} THEN Returns("None", <<>>)
    ELSE Returns("item",
                 <<items[CHOOSE i \in PositionsOfId(items, id) :
                            \A j \in PositionsOfId(items, id) : i <= j]>>)

(***************************************************************************)
(* Admin views: the session of a request is the signed cookie it carries.  *)
(***************************************************************************)
\* session.get("csrf_token") is None; request.form.get("csrf_token") is None
NoToken == 0

\* The session of a request without cookie.
EmptySession == [admin_authenticated |-> FALSE, csrf_token |-> NoToken]

NoAdminRequest ==
    [view |-> "none", method |-> "GET", session |-> EmptySession,
     csrf_token |-> NoToken, changed |-> FALSE]

\* The store and the admin views at rest.
PortfolioIdle ==
    /\ portfolio_json = NoFile
    /\ portfolio_tmp = NoFile
    /\ STORE_LOCK = 0
    /\ p_pc = [t \in Callers |-> "idle"]
    /\ p_call = [t \in Callers |-> NoCall]
    /\ p_data = [t \in Callers |-> <<>>]
    /\ p_ret = [t \in Callers |-> NoReturn]
    /\ uuids = 0
    /\ created = {}
    /\ deleted = {}
    /\ admin_configured = FALSE
    /\ issued = {}
    /\ tokens = 0
    /\ logged_out = {}
    /\ a_req = NoAdminRequest

(***************************************************************************)
(* Search harness: an index as a rebuild lays it out (audio items, then    *)
(* image items) and one query on it.  File k holds content k, except for   *)
(* at most MaxDup files that are copies of an earlier file.                *)
(***************************************************************************)
QueryEmbeddings == {EmbList[1], EmbList[2], EmbList[3], EmbList[11]}

HarnessItem(type, k) ==
    [type |-> type,
     url |-> <<"ear", "data", IF type = "audio" THEN "audio" ELSE "frames",
               "a", ItemNames[k]>>,
     label |-> "a"]

HarnessMetadata(na, ni) ==
    [k \in 1..(na + ni) |->
        HarnessItem(IF k <= na THEN "audio" ELSE "image", k)]

\* The content of each of n files, with at most d copies among them:
\* src[k] = k for an original, src[k] < k for a copy of an earlier file.
RECURSIVE HarnessContents(_, _)
HarnessContents(n, d) ==
    IF n = 0
    THEN {<<>>}
    ELSE {Append(src, n) : src \in HarnessContents(n - 1, d)}
         \cup (IF d = 0
                THEN {}
                ELSE {Append(src, src[j]) :
                        src \in HarnessContents(n - 1, d - 1), j \in 1..(n - 1)})

\* The web process before any request, with nothing on disk.
LifecycleIdle ==
    /\ base_dir_exists = FALSE
    /\ model_exists = FALSE
    /\ dataset = <<>>
    /\ cache = NoCache
    /\ uploads = {}
    /\ data_url_prefix = DeployedPrefix
    /\ engine = NoEngine
    /\ engine_error = None
    /\ pc = [t \in Threads |-> "idle"]
    /\ req = [t \in Threads |-> NoRequest]
    /\ eng = [t \in Threads |-> NoEngine]
    /\ resp = [t \in Threads |-> NoResponse]
    /\ attempts = 0
    /\ constructions = 0
    /\ restarts = 0

SearchInit ==
    /\ LifecycleIdle
    /\ PortfolioIdle
    /\ \E na \in 0..MaxAudio, ni \in 0..MaxImage :
       \E src \in HarnessContents(na + ni, MaxDup) :
          /\ s_metadata = HarnessMetadata(na, ni)
          /\ s_tensor = [k \in 1..(na + ni) |-> EmbList[src[k]]]
    /\ s_pc = "ready"
    /\ s_query = NoQuery
    /\ s_ranking = <<>>
    /\ s_out = NoOut

\* _handle_query on a staged file the encoder accepted.
HandleQuery ==
    /\ s_pc = "ready"
    /\ Len(s_metadata) > 0
    /\ \E query_type \in Modalities, query_emb \in QueryEmbeddings :
       \E ranking \in Rankings(s_metadata, s_tensor, query_emb) :
          /\ s_query' = [type |-> query_type, emb |-> query_emb]
          /\ s_ranking' = ranking
          /\ s_out' = SearchResult(s_metadata, s_tensor, query_type,
                                   query_emb, ranking)
    /\ s_pc' = "done"
    /\ UNCHANGED <<s_metadata, s_tensor>>
    /\ UNCHANGED <<evars, pvars, avars>>

SearchNext == HandleQuery

SpecSearch == SearchInit /\ [][SearchNext]_vars

(***************************************************************************)
(* The web process: request threads in query_endpoint, the lazily built    *)
(* engine of get_engine, and the files it reads and writes.                *)
(***************************************************************************)
\* The search harness at rest.
HarnessIdle ==
    /\ s_metadata = <<>>
    /\ s_tensor = <<>>
    /\ s_pc = "off"
    /\ s_query = NoQuery
    /\ s_ranking = <<>>
    /\ s_out = NoOut

\* Module state of routes.py at import, on a disk where the model file, the
\* dataset folder and the cache artifact exist only inside the data directory.
Init ==
    /\ HarnessIdle
    /\ PortfolioIdle
    /\ base_dir_exists \in BOOLEAN
    /\ model_exists \in BOOLEAN
    /\ dataset \in Datasets
    /\ cache \in InitialCaches
    /\ ~base_dir_exists => (~model_exists /\ dataset = <<>> /\ cache = NoCache)
    /\ uploads = {}
    /\ data_url_prefix = DeployedPrefix
    /\ engine = NoEngine
    /\ engine_error = None
    /\ pc = [t \in Threads |-> "idle"]
    /\ req = [t \in Threads |-> NoRequest]
    /\ eng = [t \in Threads |-> NoEngine]
    /\ resp = [t \in Threads |-> NoResponse]
    /\ attempts = 0
    /\ constructions = 0
    /\ restarts = 0

\* get_engine: `if _engine is not None or _engine_error is not None`
EngineKnown == engine.id # 0 \/ engine_error # None

\* query_endpoint calls get_engine(): with an engine or an error recorded it
\* returns _engine at once, otherwise the thread enters the try block.
BeginQuery(t) ==
    /\ pc[t] = "idle"
    /\ IF EngineKnown
       THEN /\ eng' = [eng EXCEPT ![t] = engine]
            /\ pc' = [pc EXCEPT ![t] = "dispatch"]
            /\ UNCHANGED attempts
       ELSE /\ pc' = [pc EXCEPT ![t] = "init"]
            /\ attempts' = attempts + 1
            /\ UNCHANGED eng
    /\ UNCHANGED <<disk, cache, uploads, data_url_prefix, engine, engine_error,
                   req, resp, constructions, restarts>>
    /\ UNCHANGED <<svars, pvars, avars>>

\* Mutation of InitEngine: the new EarEngine is stored in _engine before
\* _index_dataset has run.
InitEnginePublishesEarly(t) ==
    /\ pc[t] = "init"
    /\ IF ~base_dir_exists
       THEN /\ engine_error' = "DirMissing"
            /\ eng' = [eng EXCEPT ![t] = NoEngine]
            /\ pc' = [pc EXCEPT ![t] = "dispatch"]
            /\ UNCHANGED <<constructions, engine>>
       ELSE /\ constructions' = constructions + 1
            /\ IF ~model_exists
               THEN /\ engine_error' = "ModelMissing"
                    /\ eng' = [eng EXCEPT ![t] = engine]
                    /\ pc' = [pc EXCEPT ![t] = "dispatch"]
                    /\ UNCHANGED engine
               ELSE /\ eng' = [eng EXCEPT ![t] =
                                 [NoEngine EXCEPT !.id = constructions + 1]]
                    /\ engine' = [NoEngine EXCEPT !.id = constructions + 1]
                    /\ pc' = [pc EXCEPT ![t] = "index"]
                    /\ UNCHANGED engine_error
    /\ UNCHANGED <<disk, cache, uploads, data_url_prefix, req, resp,
                   attempts, restarts>>
    /\ UNCHANGED <<svars, pvars, avars>>

\* get_engine, lines 29-35, and EarEngine.__init__ up to _build_model: a
\* missing data directory or model file is recorded in _engine_error and
\* get_engine returns _engine.
InitEngine(t) ==
    /\ pc[t] = "init"
    /\ IF ~base_dir_exists
       THEN /\ engine_error' = "DirMissing"
            /\ eng' = [eng EXCEPT ![t] = NoEngine]
            /\ pc' = [pc EXCEPT ![t] = "dispatch"]
            /\ UNCHANGED constructions
       ELSE /\ constructions' = constructions + 1
            /\ IF ~model_exists
               THEN /\ engine_error' = "ModelMissing"
                    /\ eng' = [eng EXCEPT ![t] = engine]
                    /\ pc' = [pc EXCEPT ![t] = "dispatch"]
               ELSE /\ eng' = [eng EXCEPT ![t] =
                                 [NoEngine EXCEPT !.id = constructions + 1]]
                    /\ pc' = [pc EXCEPT ![t] = "index"]
                    /\ UNCHANGED engine_error
    /\ UNCHANGED <<disk, cache, uploads, data_url_prefix, engine, req, resp,
                   attempts, restarts>>
    /\ UNCHANGED <<svars, pvars, avars>>

\* Mutation of CacheLoadable: a cache artifact that is unreadable or still
\* being written is taken as it is.
CacheLoadableAlways(c) == c.state # "absent"

\* torch.load and the two subscripts succeed on a complete artifact only.
CacheLoadable(c) == c.state = "ok"

\* _index_dataset, lines 154-164: a readable cache becomes the index and
\* ends the indexing; a missing or unreadable one leads to the rebuild.
LoadCache(t) ==
    /\ pc[t] = "index"
    /\ IF cache.state # "absent" /\ CacheLoadable(cache)
       THEN /\ eng' = [eng EXCEPT ![t] =
                         [id |-> eng[t].id,
                          db_metadata |-> ApplyDataPrefix(cache.index.metadata,
                                                          data_url_prefix),
                          db_tensor |-> cache.index.tensor,
                          source |-> "cache",
                          origin |-> cache.index]]
            /\ pc' = [pc EXCEPT ![t] = "publish"]
       ELSE /\ pc' = [pc EXCEPT ![t] = "rebuild"]
            /\ UNCHANGED eng
    /\ UNCHANGED <<disk, cache, uploads, data_url_prefix, engine, engine_error,
                   req, resp, attempts, constructions, restarts>>
    /\ UNCHANGED <<svars, pvars, avars>>

\* _index_dataset, lines 166-227: no embedding raises EarDatasetEmpty, which
\* get_engine records before it returns _engine.
RebuildIndex(t) ==
    /\ pc[t] = "rebuild"
    /\ LET built == IndexDataset(dataset, data_url_prefix)
       IN  IF built.embeddings = <<>>
           THEN /\ engine_error' = "DatasetEmpty"
                /\ eng' = [eng EXCEPT ![t] = engine]
                /\ pc' = [pc EXCEPT ![t] = "dispatch"]
           ELSE /\ eng' = [eng EXCEPT ![t] =
                             [id |-> eng[t].id,
                              db_metadata |-> ApplyDataPrefix(built.metadata,
                                                              data_url_prefix),
                              db_tensor |-> built.embeddings,
                              source |-> "rebuild",
                              origin |-> NoIndex]]
                /\ pc' = [pc EXCEPT ![t] = "save"]
                /\ UNCHANGED engine_error
    /\ UNCHANGED <<disk, cache, uploads, data_url_prefix, engine, req, resp,
                   attempts, constructions, restarts>>
    /\ UNCHANGED <<svars, pvars, avars>>

\* The index torch.save is given.
SavedIndex(e) == [metadata |-> e.db_metadata, tensor |-> e.db_tensor]

\* Mutation of SaveBegin: a cache path that cannot be opened makes the
\* constructor raise, and get_engine records the failure.
SaveBeginFailureRaises(t) ==
    /\ pc[t] = "save"
    /\ \/ /\ cache' = [state |-> "partial", index |-> NoIndex]
          /\ pc' = [pc EXCEPT ![t] = "save2"]
          /\ UNCHANGED <<engine_error, eng>>
       \/ /\ engine_error' = "SaveFailed"
          /\ eng' = [eng EXCEPT ![t] = engine]
          /\ pc' = [pc EXCEPT ![t] = "dispatch"]
          /\ UNCHANGED cache
    /\ UNCHANGED <<disk, uploads, data_url_prefix, engine, req,
                   resp, attempts, constructions, restarts>>
    /\ UNCHANGED <<svars, pvars, avars>>

\* torch.save, line 231, opens the cache path and starts to write; when the
\* path cannot be opened the failure is logged and the cache is as before.
SaveBegin(t) ==
    /\ pc[t] = "save"
    /\ \/ /\ cache' = [state |-> "partial", index |-> NoIndex]
          /\ pc' = [pc EXCEPT ![t] = "save2"]
       \/ /\ pc' = [pc EXCEPT ![t] = "publish"]
          /\ UNCHANGED cache
    /\ UNCHANGED <<disk, uploads, data_url_prefix, engine, engine_error, req,
                   eng, resp, attempts, constructions, restarts>>
    /\ UNCHANGED <<svars, pvars, avars>>

\* torch.save finishes the file, or fails part way and leaves it truncated.
SaveEnd(t) ==
    /\ pc[t] = "save2"
    /\ \/ cache' = [state |-> "ok", index |-> SavedIndex(eng[t])]
       \/ cache' = [state |-> "partial", index |-> NoIndex]
    /\ pc' = [pc EXCEPT ![t] = "publish"]
    /\ UNCHANGED <<disk, uploads, data_url_prefix, engine, engine_error, req,
                   eng, resp, attempts, constructions, restarts>>
    /\ UNCHANGED <<svars, pvars, avars>>

\* torch.save finishes while another thread is writing the same path: the
\* file can end as an unreadable mix of the two.
SaveClash(t) ==
    /\ pc[t] = "save2"
    /\ \E u \in Threads \ {t} : pc[u] = "save2"
    /\ cache' = [state |-> "corrupt", index |-> NoIndex]
    /\ pc' = [pc EXCEPT ![t] = "publish"]
    /\ UNCHANGED <<disk, uploads, data_url_prefix, engine, engine_error, req,
                   eng, resp, attempts, constructions, restarts>>
    /\ UNCHANGED <<svars, pvars, avars>>

\* get_engine, line 35: `_engine = EarEngine(...)`, then `return _engine`.
Publish(t) ==
    /\ pc[t] = "publish"
    /\ engine' = eng[t]
    /\ pc' = [pc EXCEPT ![t] = "dispatch"]
    /\ UNCHANGED <<disk, cache, uploads, data_url_prefix, engine_error, req,
                   eng, resp, attempts, constructions, restarts>>
    /\ UNCHANGED <<svars, pvars, avars>>

\* werkzeug's secure_filename on the file names of the model.
SecureFilename(name) == name

\* file.save(filepath): the upload replaces whatever is at that path.
SaveUpload(files, name, t, r) ==
    {f \in files : f.name # name}
        \cup {[name |-> name, owner |-> t, ok |-> r.ok, emb |-> r.emb]}

\* Mutation of EarlyAnswer: a missing engine and an index without items are
\* both answered with the generic message, whatever error is stored.
EarlyAnswerNotReady(e, r) ==
    IF e.id = 0 THEN Response(503, "Unavailable")
    ELSE IF ~r.has_file THEN Response(400, "NoFile")
    ELSE IF r.filename = NoName THEN Response(400, "InvalidInput")
    ELSE IF Len(e.db_metadata) = 0 THEN Response(503, "Unavailable")
    ELSE NoResponse

\* Mutation of EarlyAnswer: EarDatasetEmpty is not told apart from the other
\* exceptions of engine.query and gets the answer of an internal failure.
EarlyAnswerEmptyAsInternal(e, r) ==
    IF e.id = 0
    THEN [Response(503, "Unavailable") EXCEPT !.detail = engine_error]
    ELSE IF ~r.has_file THEN Response(400, "NoFile")
    ELSE IF r.filename = NoName THEN Response(400, "InvalidInput")
    ELSE IF Len(e.db_metadata) = 0 THEN Response(500, "DatasetEmpty")
    ELSE NoResponse

\* Answer of query_endpoint to request r before anything is staged, for the
\* engine e that get_engine returned; NoResponse when the upload is staged.
EarlyAnswer(e, r) ==
    IF e.id = 0
    THEN [Response(503, "Unavailable") EXCEPT !.detail = engine_error]
    ELSE IF ~r.has_file THEN Response(400, "NoFile")
    ELSE IF r.filename = NoName THEN Response(400, "InvalidInput")
    ELSE IF Len(e.db_metadata) = 0 THEN Response(503, "DatasetEmpty")
    ELSE NoResponse

\* query_endpoint, lines 62-73, and EarEngine.query up to file.save, on the
\* request r of the client: the answers given before anything is staged,
\* else the upload is staged.
Dispatch(t) ==
    /\ pc[t] = "dispatch"
    /\ \E r \in Requests :
          /\ req' = [req EXCEPT ![t] = r]
          /\ IF EarlyAnswer(eng[t], r) # NoResponse
             THEN /\ resp' = [resp EXCEPT ![t] = EarlyAnswer(eng[t], r)]
                  /\ pc' = [pc EXCEPT ![t] = "done"]
                  /\ UNCHANGED uploads
             ELSE /\ uploads' = SaveUpload(uploads, SecureFilename(r.filename),
                                           t, r)
                  /\ pc' = [pc EXCEPT ![t] = "staged"]
                  /\ UNCHANGED resp
    /\ UNCHANGED <<disk, cache, data_url_prefix, engine, engine_error,
                   eng, attempts, constructions, restarts>>
    /\ UNCHANGED <<svars, pvars, avars>>

\* The file at the staged path, if any.
StagedFiles(name) == {f \in uploads : f.name = name}

\* The extension is in one of the two allow-lists of _handle_query.
Supported(ext) == Lower(ext) \in ImageExts \cup AudioExts

\* query_type of _handle_query.
QueryType(ext) == IF Lower(ext) \in ImageExts THEN "image" ELSE "audio"

\* query_emb @ self.db_tensor.T is defined: the rows of the matrix have the
\* dimension of the query embedding.
Multipliable(db_tensor) ==
    \A i \in 1..Len(db_tensor) : Len(db_tensor[i]) = EmbDim

\* item = self.db_metadata[idx.item()] raises IndexError: the bucket loop
\* reaches a selected index that has no item before both buckets are full.
IndexErrorAt(db_metadata, sims, ranking, query_type) ==
    \E p \in 1..Len(ranking) :
        /\ ranking[p] > Len(db_metadata)
        /\ \A q \in 1..(p - 1) : ranking[q] <= Len(db_metadata)
        /\ LET b == BucketWalk(db_metadata, sims, SubSeq(ranking, 1, p - 1),
                               query_type, 1, <<>>, <<>>)
           IN  ~(/\ Len(b.same_modality) >= K_PER_BUCKET
                 /\ Len(b.cross_modality) >= K_PER_BUCKET)

\* The answers to a query whose upload was embedded as query_emb, lines
\* 276-305 of _handle_query and the exception handlers of the route: the
\* matrix product raises on rows of another dimension and the bucket loop on
\* an index without item (500), else the result is returned (200).
SearchAnswers(e, query_type, query_emb) ==
    IF ~Multipliable(e.db_tensor)
    THEN {Response(500, "Internal")}
    ELSE {IF IndexErrorAt(e.db_metadata, Similarities(query_emb, e.db_tensor),
                          ranking, query_type)
          THEN Response(500, "Internal")
          ELSE [Response(200, "ok") EXCEPT !.result =
                   SearchResult(e.db_metadata, e.db_tensor, query_type,
                                query_emb, ranking)] :
          ranking \in Rankings(e.db_metadata, e.db_tensor, query_emb)}

\* EarEngine._handle_query on the staged path: an extension outside the
\* allow-lists raises ValueError; otherwise the file at the path is decoded
\* and embedded (which raises when it is missing or undecodable) and the
\* index is searched.  The route turns ValueError into 400 and any other
\* exception into 500.
HandleStaged(t) ==
    /\ pc[t] = "staged"
    /\ LET name == SecureFilename(req[t].filename)
       IN  IF ~Supported(name.ext)
           THEN resp' = [resp EXCEPT ![t] = Response(400, "UnsupportedType")]
           ELSE IF \A f \in StagedFiles(name) : ~f.ok
           THEN resp' = [resp EXCEPT ![t] = Response(500, "Internal")]
           ELSE \E f \in StagedFiles(name) :
                \E answer \in SearchAnswers(eng[t], QueryType(name.ext), f.emb) :
                    resp' = [resp EXCEPT ![t] = answer]
    /\ pc' = [pc EXCEPT ![t] = "cleanup"]
    /\ UNCHANGED <<disk, cache, uploads, data_url_prefix, engine, engine_error,
                   req, eng, attempts, constructions, restarts>>
    /\ UNCHANGED <<svars, pvars, avars>>

\* Mutation of Cleanup: the staged file is removed after a successful query
\* only.
CleanupOnSuccessOnly(t) ==
    /\ pc[t] = "cleanup"
    /\ uploads' = IF resp[t].status = 200
                  THEN {f \in uploads : f.name # SecureFilename(req[t].filename)}
                  ELSE uploads
    /\ pc' = [pc EXCEPT ![t] = "done"]
    /\ UNCHANGED <<disk, cache, data_url_prefix, engine, engine_error, req,
                   eng, resp, attempts, constructions, restarts>>
    /\ UNCHANGED <<svars, pvars, avars>>

\* The finally block of EarEngine.query: filepath.unlink(), a missing file
\* is ignored.
Cleanup(t) ==
    /\ pc[t] = "cleanup"
    /\ uploads' = {f \in uploads : f.name # SecureFilename(req[t].filename)}
    /\ pc' = [pc EXCEPT ![t] = "done"]
    /\ UNCHANGED <<disk, cache, data_url_prefix, engine, engine_error, req,
                   eng, resp, attempts, constructions, restarts>>
    /\ UNCHANGED <<svars, pvars, avars>>

\* The response is sent and the thread is free for the next request.
Finish(t) ==
    /\ pc[t] = "done"
    /\ pc' = [pc EXCEPT ![t] = "idle"]
    /\ req' = [req EXCEPT ![t] = NoRequest]
    /\ eng' = [eng EXCEPT ![t] = NoEngine]
    /\ resp' = [resp EXCEPT ![t] = NoResponse]
    /\ UNCHANGED <<disk, cache, uploads, data_url_prefix, engine, engine_error,
                   attempts, constructions, restarts>>
    /\ UNCHANGED <<svars, pvars, avars>>

\* The web process is stopped and started again: the module globals are as
\* at import, the threads and their requests are gone, the files stay (a
\* cache that was being written stays truncated), and the deployment may
\* serve the data under another prefix.
Restart ==
    /\ restarts < MaxRestarts
    /\ restarts' = restarts + 1
    /\ engine' = NoEngine
    /\ engine_error' = None
    /\ pc' = [t \in Threads |-> "idle"]
    /\ req' = [t \in Threads |-> NoRequest]
    /\ eng' = [t \in Threads |-> NoEngine]
    /\ resp' = [t \in Threads |-> NoResponse]
    /\ attempts' = 0
    /\ constructions' = 0
    /\ data_url_prefix' \in Prefixes
    /\ UNCHANGED <<disk, cache, uploads>>
    /\ UNCHANGED <<svars, pvars, avars>>

\* The steps of one request thread.
ThreadStep(t) ==
    \/ BeginQuery(t)
    \/ InitEngine(t)
    \/ LoadCache(t)
    \/ RebuildIndex(t)
    \/ SaveBegin(t)
    \/ SaveEnd(t)
    \/ Publish(t)
    \/ Dispatch(t)
    \/ HandleStaged(t)
    \/ Cleanup(t)
    \/ Finish(t)

\* One life of the web process, its request threads running concurrently.
Next == \E t \in Threads : ThreadStep(t) \/ SaveClash(t)

Spec == Init /\ [][Next]_vars

\* Successive deployments of the engine on one disk, requests one at a time.
IndexInit ==
    /\ HarnessIdle
    /\ PortfolioIdle
    /\ base_dir_exists = TRUE
    /\ model_exists = TRUE
    /\ dataset \in Datasets
    /\ cache \in InitialCaches
    /\ uploads = {}
    /\ data_url_prefix \in Prefixes
    /\ engine = NoEngine
    /\ engine_error = None
    /\ pc = [t \in Threads |-> "idle"]
    /\ req = [t \in Threads |-> NoRequest]
    /\ eng = [t \in Threads |-> NoEngine]
    /\ resp = [t \in Threads |-> NoResponse]
    /\ attempts = 0
    /\ constructions = 0
    /\ restarts = 0

IndexNext == ThreadStep(1) \/ Restart

SpecIndex == IndexInit /\ [][IndexNext]_vars

(***************************************************************************)
(* Portfolio store: the calls of concurrent callers in one process, step   *)
(* by step.  A caller that has entered a method goes through _read         *)
(* (_ensure_data_file, then read_text), the body of the method, and        *)
(* _write (write_text on temp_path, then replace).                         *)
(***************************************************************************)
\* The frame of every step of a store call.
StoreFrame == UNCHANGED <<svars, evars, avars>>

\* list_items(include_unpublished) is called.
ListItems(t) ==
    /\ p_pc[t] = "idle"
    /\ \E all \in BOOLEAN :
          p_call' = [p_call EXCEPT ![t] = [NoCall EXCEPT !.op = "list", !.all = all]]
    /\ p_pc' = [p_pc EXCEPT ![t] = "check"]
    /\ UNCHANGED <<portfolio_json, portfolio_tmp, STORE_LOCK, p_data, p_ret,
                   uuids, created, deleted>>
    /\ StoreFrame

\* get_item(item_id) is called.
GetItem(t) ==
    /\ p_pc[t] = "idle"
    /\ \E id \in 1..MaxItems :
          p_call' = [p_call EXCEPT ![t] = [NoCall EXCEPT !.op = "get", !.id = id]]
    /\ p_pc' = [p_pc EXCEPT ![t] = "check"]
    /\ UNCHANGED <<portfolio_json, portfolio_tmp, STORE_LOCK, p_data, p_ret,
                   uuids, created, deleted>>
    /\ StoreFrame

\* create_item(payload) is called.  The uuid4 of the new item does not
\* depend on anything the call reads, so it is drawn here.
CreateItem(t) ==
    /\ p_pc[t] = "idle"
    /\ uuids < MaxItems
    /\ uuids' = uuids + 1
    /\ \E payload \in Payloads :
          p_call' = [p_call EXCEPT ![t] =
                        [NoCall EXCEPT !.op = "create", !.id = uuids + 1,
                                       !.payload = payload]]
    /\ p_pc' = [p_pc EXCEPT ![t] = "lock"]
    /\ UNCHANGED <<portfolio_json, portfolio_tmp, STORE_LOCK, p_data, p_ret,
                   created, deleted>>
    /\ StoreFrame

\* update_item(item_id, payload) is called.
UpdateItem(t) ==
    /\ p_pc[t] = "idle"
    /\ \E id \in 1..MaxItems, payload \in Payloads :
          p_call' = [p_call EXCEPT ![t] =
                        [NoCall EXCEPT !.op = "update", !.id = id,
                                       !.payload = payload]]
    /\ p_pc' = [p_pc EXCEPT ![t] = "lock"]
    /\ UNCHANGED <<portfolio_json, portfolio_tmp, STORE_LOCK, p_data, p_ret,
                   uuids, created, deleted>>
    /\ StoreFrame

\* delete_item(item_id) is called.
DeleteItem(t) ==
    /\ p_pc[t] = "idle"
    /\ \E id \in 1..MaxItems :
          p_call' = [p_call EXCEPT ![t] = [NoCall EXCEPT !.op = "delete", !.id = id]]
    /\ p_pc' = [p_pc EXCEPT ![t] = "lock"]
    /\ UNCHANGED <<portfolio_json, portfolio_tmp, STORE_LOCK, p_data, p_ret,
                   uuids, created, deleted>>
    /\ StoreFrame

\* with _STORE_LOCK: the caller waits until the lock is free.
AcquireLock(t) ==
    /\ p_pc[t] = "lock"
    /\ STORE_LOCK = 0
    /\ STORE_LOCK' = t
    /\ p_pc' = [p_pc EXCEPT ![t] = "check"]
    /\ UNCHANGED <<portfolio_json, portfolio_tmp, p_call, p_data, p_ret,
                   uuids, created, deleted>>
    /\ StoreFrame

\* The lock after the call of t has left its `with` block.
Released(t) == IF STORE_LOCK = t THEN 0 ELSE STORE_LOCK

\* _ensure_data_file: if not self._path.exists()
EnsureDataFile(t) ==
    /\ p_pc[t] = "check"
    /\ p_pc' = [p_pc EXCEPT ![t] =
                   IF portfolio_json.exists THEN "read" ELSE "ensure_tmp"]
    /\ UNCHANGED <<portfolio_json, portfolio_tmp, STORE_LOCK, p_call, p_data,
                   p_ret, uuids, created, deleted>>
    /\ StoreFrame

\* _write({"items": []}) of _ensure_data_file: temp_path.write_text
EnsureWriteTemp(t) ==
    /\ p_pc[t] = "ensure_tmp"
    /\ portfolio_tmp' = FileOf(<<>>)
    /\ p_pc' = [p_pc EXCEPT ![t] = "ensure_replace"]
    /\ UNCHANGED <<portfolio_json, STORE_LOCK, p_call, p_data, p_ret,
                   uuids, created, deleted>>
    /\ StoreFrame

\* _write({"items": []}) of _ensure_data_file: temp_path.replace(self._path)
\* moves whatever is at temp_path; FileNotFoundError when nothing is there.
EnsureReplace(t) ==
    /\ p_pc[t] = "ensure_replace"
    /\ IF portfolio_tmp.exists
       THEN /\ portfolio_json' = portfolio_tmp
            /\ portfolio_tmp' = NoFile
            /\ p_pc' = [p_pc EXCEPT ![t] = "read"]
            /\ UNCHANGED <<STORE_LOCK, p_ret>>
       ELSE /\ p_ret' = [p_ret EXCEPT ![t] = Returns("raised", <<>>)]
            /\ STORE_LOCK' = Released(t)
            /\ p_pc' = [p_pc EXCEPT ![t] = "done"]
            /\ UNCHANGED <<portfolio_json, portfolio_tmp>>
    /\ UNCHANGED <<p_call, p_data, uuids, created, deleted>>
    /\ StoreFrame

\* The body of the method on the item list it has read: what it returns at
\* once, or the item list it goes on to write.
ReadItems(t) ==
    /\ p_pc[t] = "read"
    /\ LET items == portfolio_json.items
           call  == p_call[t]
       IN  CASE call.op = "list" ->
                  /\ p_ret' = [p_ret EXCEPT ![t] =
                                  Returns("items", Listed(items, call.all))]
                  /\ p_pc' = [p_pc EXCEPT ![t] = "done"]
                  /\ UNCHANGED <<p_data, STORE_LOCK>>
             [] call.op = "get" ->
                  /\ p_ret' = [p_ret EXCEPT ![t] = Got(items, call.id)]
                  /\ p_pc' = [p_pc EXCEPT ![t] = "done"]
                  /\ UNCHANGED <<p_data, STORE_LOCK>>
             [] call.op = "create" ->
                  /\ p_data' = [p_data EXCEPT ![t] =
                                   Append(items, NewItem(call.id, call.payload, items))]
                  /\ p_pc' = [p_pc EXCEPT ![t] = "write_tmp"]
                  /\ UNCHANGED <<p_ret, STORE_LOCK>>
             [] call.op = "update" ->
                  IF PositionsOfId(items, call.id) = {}
                  THEN /\ p_ret' = [p_ret EXCEPT ![t] = Returns("None", <<>>)]
                       /\ STORE_LOCK' = Released(t)
                       /\ p_pc' = [p_pc EXCEPT ![t] = "done"]
                       /\ UNCHANGED p_data
                  ELSE /\ p_data' = [p_data EXCEPT ![t] =
                                        UpdatedItems(items, call.id, call.payload)]
                       /\ p_pc' = [p_pc EXCEPT ![t] = "write_tmp"]
                       /\ UNCHANGED <<p_ret, STORE_LOCK>>
             [] call.op = "delete" ->
                  IF Len(Filtered(items, call.id)) = Len(items)
                  THEN /\ p_ret' = [p_ret EXCEPT ![t] = Returns("False", <<>>)]
                       /\ STORE_LOCK' = Released(t)
                       /\ p_pc' = [p_pc EXCEPT ![t] = "done"]
                       /\ UNCHANGED p_data
                  ELSE /\ p_data' = [p_data EXCEPT ![t] = Filtered(items, call.id)]
                       /\ p_pc' = [p_pc EXCEPT ![t] = "write_tmp"]
                       /\ UNCHANGED <<p_ret, STORE_LOCK>>
    /\ UNCHANGED <<portfolio_json, portfolio_tmp, p_call, uuids, created, deleted>>
    /\ StoreFrame

\* _write(data): temp_path.write_text(serialized)
WriteTemp(t) ==
    /\ p_pc[t] = "write_tmp"
    /\ portfolio_tmp' = FileOf(p_data[t])
    /\ p_pc' = [p_pc EXCEPT ![t] = "replace"]
    /\ UNCHANGED <<portfolio_json, STORE_LOCK, p_call, p_data, p_ret,
                   uuids, created, deleted>>
    /\ StoreFrame

\* What create_item, update_item and delete_item return after _write.
Written(call, items) ==
    IF call.op = "delete" THEN Returns("True", <<>>)
    ELSE Returns("item", <<items[CHOOSE i \in PositionsOfId(items, call.id) :
                                    \A j \in PositionsOfId(items, call.id) : i <= j]>>)

\* _write(data): temp_path.replace(self._path), then the method returns and
\* the lock is released; FileNotFoundError leaves the method at once.
Replace(t) ==
    /\ p_pc[t] = "replace"
    /\ IF portfolio_tmp.exists
       THEN /\ portfolio_json' = portfolio_tmp
            /\ portfolio_tmp' = NoFile
            /\ p_ret' = [p_ret EXCEPT ![t] = Written(p_call[t], p_data[t])]
            /\ created' = IF p_call[t].op = "create"
                          THEN created \cup {p_call[t].id} ELSE created
            /\ deleted' = IF p_call[t].op = "delete"
                          THEN deleted \cup {p_call[t].id} ELSE deleted
       ELSE /\ p_ret' = [p_ret EXCEPT ![t] = Returns("raised", <<>>)]
            /\ UNCHANGED <<portfolio_json, portfolio_tmp, created, deleted>>
    /\ STORE_LOCK' = Released(t)
    /\ p_pc' = [p_pc EXCEPT ![t] = "done"]
    /\ UNCHANGED <<p_call, p_data, uuids>>
    /\ StoreFrame

\* The caller has its return value and is free for its next call.
Return(t) ==
    /\ p_pc[t] = "done"
    /\ p_pc' = [p_pc EXCEPT ![t] = "idle"]
    /\ p_call' = [p_call EXCEPT ![t] = NoCall]
    /\ p_data' = [p_data EXCEPT ![t] = <<>>]
    /\ p_ret' = [p_ret EXCEPT ![t] = NoReturn]
    /\ UNCHANGED <<portfolio_json, portfolio_tmp, STORE_LOCK, uuids, created,
                   deleted>>
    /\ StoreFrame

\* The admin views at rest.
AdminIdle ==
    /\ admin_configured = FALSE
    /\ issued = {}
    /\ tokens = 0
    /\ logged_out = {}
    /\ a_req = NoAdminRequest

\* The data file does not exist before the first call on a new deployment,
\* and holds an item list afterwards.
StoreInit ==
    /\ HarnessIdle
    /\ LifecycleIdle
    /\ AdminIdle
    /\ portfolio_json \in {NoFile, FileOf(<<>>)}
    /\ portfolio_tmp = NoFile
    /\ STORE_LOCK = 0
    /\ p_pc = [t \in Callers |-> "idle"]
    /\ p_call = [t \in Callers |-> NoCall]
    /\ p_data = [t \in Callers |-> <<>>]
    /\ p_ret = [t \in Callers |-> NoReturn]
    /\ uuids = 0
    /\ created = {}
    /\ deleted = {}

StoreNext ==
    \E t \in Callers :
        \/ ListItems(t)
        \/ GetItem(t)
        \/ CreateItem(t)
        \/ UpdateItem(t)
        \/ DeleteItem(t)
        \/ AcquireLock(t)
        \/ EnsureDataFile(t)
        \/ EnsureWriteTemp(t)
        \/ EnsureReplace(t)
        \/ ReadItems(t)
        \/ WriteTemp(t)
        \/ Replace(t)
        \/ Return(t)

SpecStore == StoreInit /\ [][StoreNext]_vars

(***************************************************************************)
(* Admin views, one request at a time.  flask.session is the signed cookie *)
(* of the request (config.py sets SECRET_KEY and cookie flags and no other *)
(* session interface): a request carries any cookie the server has sent,   *)
(* or none, and the view answers with the session as it has left it.       *)
(***************************************************************************)
\* The sessions a request can carry.
Sessions == issued \cup {EmptySession}

\* The values of request.form.get("csrf_token").
FormTokens == 0..MaxTokens

Methods == {"GET", "POST"}

\* _csrf_token(): the session after the call.
WithCsrfToken(s) ==
    IF s.csrf_token = NoToken THEN [s EXCEPT !.csrf_token = tokens + 1] ELSE s

\* _csrf_token() can draw a new token.
CanRender(s) == s.csrf_token = NoToken => tokens < MaxTokens

\* _validate_csrf(token) in session s.
ValidateCsrf(s, token) ==
    /\ token # NoToken
    /\ s.csrf_token # NoToken
    /\ s.csrf_token = token

\* The response of a view: the cookie it sets, and the record of the request.
Respond(view, method, s, token, s2, changed) ==
    /\ issued' = issued \cup {s2}
    /\ tokens' = IF s2.csrf_token # NoToken /\ s.csrf_token = NoToken
                 THEN tokens + 1 ELSE tokens
    /\ a_req' = [view |-> view, method |-> method, session |-> s,
                 csrf_token |-> token, changed |-> changed]

\* The frame of every admin view.
AdminFrame ==
    UNCHANGED <<svars, evars, portfolio_tmp, STORE_LOCK, p_pc, p_call, p_data,
                p_ret, admin_configured>>

\* A store method has run _read: the data file exists and holds `items`.
Stored(items) ==
    portfolio_json' = FileOf(items)

\* login
Login ==
    \E method \in Methods, s \in Sessions, token \in FormTokens,
       credentials \in BOOLEAN :
        /\ IF s.admin_authenticated
           THEN Respond("login", method, s, token, s, FALSE)
           ELSE IF method = "GET"
           THEN /\ CanRender(s)
                /\ Respond("login", method, s, token, WithCsrfToken(s), FALSE)
           ELSE IF \/ ~admin_configured
                   \/ ~ValidateCsrf(s, token)
                   \/ ~credentials
           THEN /\ CanRender(s)
                /\ Respond("login", method, s, token, WithCsrfToken(s), FALSE)
           ELSE Respond("login", method, s, token,
                        [s EXCEPT !.admin_authenticated = TRUE], FALSE)
        /\ UNCHANGED <<portfolio_json, uuids, created, deleted, logged_out>>
        /\ AdminFrame

\* logout
Logout ==
    \E s \in Sessions, token \in FormTokens :
        /\ IF ~s.admin_authenticated \/ ~ValidateCsrf(s, token)
           THEN /\ Respond("logout", "POST", s, token, s, FALSE)
                /\ UNCHANGED logged_out
           ELSE /\ Respond("logout", "POST", s, token, EmptySession, FALSE)
                /\ logged_out' = logged_out \cup {s}
        /\ UNCHANGED <<portfolio_json, uuids, created, deleted>>
        /\ AdminFrame

\* portfolio_list
PortfolioList ==
    \E s \in Sessions :
        /\ IF ~s.admin_authenticated
           THEN /\ Respond("portfolio_list", "GET", s, NoToken, s, FALSE)
                /\ UNCHANGED portfolio_json
           ELSE /\ CanRender(s)
                /\ Stored(portfolio_json.items)
                /\ Respond("portfolio_list", "GET", s, NoToken,
                           WithCsrfToken(s), FALSE)
        /\ UNCHANGED <<uuids, created, deleted, logged_out>>
        /\ AdminFrame

\* portfolio_new; `error` is the error of _item_payload_from_form.
PortfolioNew ==
    \E method \in Methods, s \in Sessions, token \in FormTokens,
       payload \in Payloads, error \in BOOLEAN :
        /\ IF ~s.admin_authenticated
           THEN /\ Respond("portfolio_new", method, s, token, s, FALSE)
                /\ UNCHANGED <<portfolio_json, uuids, created>>
           ELSE IF method = "POST" /\ ~ValidateCsrf(s, token)
           THEN /\ Respond("portfolio_new", method, s, token, s, FALSE)
                /\ UNCHANGED <<portfolio_json, uuids, created>>
           ELSE IF method = "GET" \/ error
           THEN /\ CanRender(s)
                /\ Respond("portfolio_new", method, s, token,
                           WithCsrfToken(s), FALSE)
                /\ UNCHANGED <<portfolio_json, uuids, created>>
           ELSE /\ uuids < MaxItems
                /\ uuids' = uuids + 1
                /\ Stored(Append(portfolio_json.items,
                                 NewItem(uuids + 1, payload, portfolio_json.items)))
                /\ created' = created \cup {uuids + 1}
                /\ Respond("portfolio_new", method, s, token, s, TRUE)
        /\ UNCHANGED <<deleted, logged_out>>
        /\ AdminFrame

\* portfolio_edit
PortfolioEdit ==
    \E item_id \in 1..MaxItems, method \in Methods, s \in Sessions,
       token \in FormTokens, payload \in Payloads, error \in BOOLEAN :
        /\ IF ~s.admin_authenticated
           THEN /\ Respond("portfolio_edit", method, s, token, s, FALSE)
                /\ UNCHANGED portfolio_json
           ELSE IF \/ PositionsOfId(portfolio_json.items, item_id) = {}
                   \/ method = "POST" /\ ~ValidateCsrf(s, token)
           THEN /\ Respond("portfolio_edit", method, s, token, s, FALSE)
                /\ Stored(portfolio_json.items)
           ELSE IF method = "GET" \/ error
           THEN /\ CanRender(s)
                /\ Respond("portfolio_edit", method, s, token,
                           WithCsrfToken(s), FALSE)
                /\ Stored(portfolio_json.items)
           ELSE /\ Stored(UpdatedItems(portfolio_json.items, item_id, payload))
                /\ Respond("portfolio_edit", method, s, token, s, TRUE)
        /\ UNCHANGED <<uuids, created, deleted, logged_out>>
        /\ AdminFrame

\* portfolio_delete
PortfolioDelete ==
    \E item_id \in 1..MaxItems, s \in Sessions, token \in FormTokens :
        /\ IF ~s.admin_authenticated \/ ~ValidateCsrf(s, token)
           THEN /\ Respond("portfolio_delete", "POST", s, token, s, FALSE)
                /\ UNCHANGED <<portfolio_json, deleted>>
           ELSE IF PositionsOfId(portfolio_json.items, item_id) = {}
           THEN /\ Respond("portfolio_delete", "POST", s, token, s, FALSE)
                /\ Stored(portfolio_json.items)
                /\ UNCHANGED deleted
           ELSE /\ Stored(Filtered(portfolio_json.items, item_id))
                /\ deleted' = deleted \cup {item_id}
                /\ Respond("portfolio_delete", "POST", s, token, s, TRUE)
        /\ UNCHANGED <<uuids, created, logged_out>>
        /\ AdminFrame

AdminInit ==
    /\ HarnessIdle
    /\ LifecycleIdle
    /\ portfolio_json \in {NoFile, FileOf(<<>>)}
    /\ portfolio_tmp = NoFile
    /\ STORE_LOCK = 0
    /\ p_pc = [t \in Callers |-> "idle"]
    /\ p_call = [t \in Callers |-> NoCall]
    /\ p_data = [t \in Callers |-> <<>>]
    /\ p_ret = [t \in Callers |-> NoReturn]
    /\ uuids = 0
    /\ created = {}
    /\ deleted = {}
    /\ admin_configured \in BOOLEAN
    /\ issued = {}
    /\ tokens = 0
    /\ logged_out = {}
    /\ a_req = NoAdminRequest

AdminNext ==
    \/ Login
    \/ Logout
    \/ PortfolioList
    \/ PortfolioNew
    \/ PortfolioEdit
    \/ PortfolioDelete

SpecAdmin == AdminInit /\ [][AdminNext]_vars

(***************************************************************************)
(* Claims about the search (specification SpecSearch).                     *)
(***************************************************************************)
NonIncreasing(bucket) ==
    \A i \in 1..(Len(bucket) - 1) : bucket[i].score >= bucket[i + 1].score

\* The position in the index of the item a result names.
ItemOf(result) == CHOOSE i \in 1..Len(s_metadata) : s_metadata[i].url = result.url

\* The bucket of a result holding items of modality `type`.
BucketOf(type) ==
    IF type = s_query.type THEN s_out.same_modality ELSE s_out.cross_modality

ItemsOfType(type) == {i \in 1..Len(s_metadata) : s_metadata[i].type = type}

\* The indexed items whose stored embedding equals the query embedding.
ExactMatches == {i \in 1..Len(s_tensor) : s_tensor[i] = s_query.emb}

\* C4: each bucket of a search result holds at most K_PER_BUCKET (5) entries
\* and its scores are non-increasing from the first entry to the last.
C4_BucketsCappedAndSorted ==
    s_pc = "done" =>
        /\ Len(s_out.same_modality) <= K_PER_BUCKET
        /\ Len(s_out.cross_modality) <= K_PER_BUCKET
        /\ NonIncreasing(s_out.same_modality)
        /\ NonIncreasing(s_out.cross_modality)

\* C4 witness: more than 5 items of the query modality compete, the bucket is
\* full, its scores differ, and its first entry is not the first indexed item.
C4_Witness ==
    /\ s_pc = "done"
    /\ Cardinality(ItemsOfType(s_query.type)) > K_PER_BUCKET
    /\ Len(s_out.same_modality) = K_PER_BUCKET
    /\ s_out.same_modality[1].score > s_out.same_modality[K_PER_BUCKET].score
    /\ s_out.same_modality[1].url # s_metadata[1].url

\* C5 as claimed: every item whose stored embedding equals the query embedding
\* is the first entry of the bucket of its modality, with score 1.0.
C5_ExactMatchIsFirst ==
    s_pc = "done" =>
        \A x \in ExactMatches :
            /\ Len(BucketOf(s_metadata[x].type)) > 0
            /\ BucketOf(s_metadata[x].type)[1].url = s_metadata[x].url
            /\ BucketOf(s_metadata[x].type)[1].score = 1000

\* C5 as amended: when an item X has a stored embedding equal to the query
\* embedding, the first entry of the bucket of X's modality has score 1.0 and
\* is X or an item of that modality with the same stored embedding.
C5_ExactMatchScoreFirst ==
    s_pc = "done" =>
        \A x \in ExactMatches :
            LET bucket == BucketOf(s_metadata[x].type)
            IN  /\ Len(bucket) > 0
                /\ bucket[1].score = 1000
                /\ ItemOf(bucket[1]) \in ExactMatches
                /\ s_metadata[ItemOf(bucket[1])].type = s_metadata[x].type

\* C5 witness: two items of the query modality both equal the query, and the
\* one indexed later is the first entry of the bucket.
C5_Witness ==
    /\ s_pc = "done"
    /\ \E x, y \in ExactMatches :
          /\ x < y
          /\ s_metadata[x].type = s_query.type
          /\ s_metadata[y].type = s_query.type
          /\ s_out.same_modality[1].url = s_metadata[y].url
          /\ s_out.same_modality[1].score = 1000

\* A bucket that had `n` candidates to take from holds the first
\* K_PER_BUCKET of them, or all of them when they are fewer.
ShortOrFull(bucket, n) == Len(bucket) = Min(K_PER_BUCKET, n)

\* C11: on an index of at most K_TOTAL items every bucket holds all the items
\* of its modality when they are fewer than K_PER_BUCKET, and the search
\* returns; with image items only, an image query returns all its matches
\* (at most 5) in same_modality in non-increasing score and an empty
\* cross_modality.
C11_ShortBuckets ==
    (s_pc = "done" /\ Len(s_metadata) <= K_TOTAL) =>
        /\ s_out.query_type = s_query.type
        /\ \A type \in Modalities :
              ShortOrFull(BucketOf(type), Cardinality(ItemsOfType(type)))
        /\ (ItemsOfType("audio") = {} /\ s_query.type = "image") =>
              /\ s_out.cross_modality = <<>>
              /\ NonIncreasing(s_out.same_modality)
              /\ {ItemOf(s_out.same_modality[i]) :
                     i \in 1..Len(s_out.same_modality)}
                     \subseteq ItemsOfType("image")

\* C11 witness: an image query on an index of three image items and no audio
\* item returned the three of them, with different scores, and no
\* cross-modality entry.
C11_Witness ==
    /\ s_pc = "done"
    /\ s_query.type = "image"
    /\ ItemsOfType("audio") = {}
    /\ Cardinality(ItemsOfType("image")) = 3
    /\ Len(s_out.same_modality) = 3
    /\ s_out.same_modality[1].score > s_out.same_modality[3].score
    /\ s_out.cross_modality = <<>>

\* C21: in the ranking of a search, of two items with the same similarity
\* to the query the one indexed first comes first.
C21_TiesByIndexOrder ==
    s_pc = "done" =>
        \A p, q \in 1..Len(s_ranking) :
            (/\ p < q
             /\ Dot(s_query.emb, s_tensor[s_ranking[p]])
                    = Dot(s_query.emb, s_tensor[s_ranking[q]])) =>
                s_ranking[p] < s_ranking[q]

\* The ranked candidates whose modality equals the query modality (same =
\* TRUE) or differs from it (same = FALSE), in rank order.
RankedOfType(same) ==
    SelectSeq(s_ranking,
              LAMBDA i : (s_metadata[i].type = s_query.type) = same)

\* The entries of the first K_PER_BUCKET candidates of `ranked`.
FirstEntries(ranked) ==
    [p \in 1..Min(K_PER_BUCKET, Len(ranked)) |->
        ResultObj(s_metadata[ranked[p]], Dot(s_query.emb, s_tensor[ranked[p]]))]

\* The locators of a bucket.
UrlsOf(bucket) == {bucket[p].url : p \in 1..Len(bucket)}

Answered == {t \in Threads : pc[t] \in {"dispatch", "staged", "cleanup", "done"}}

\* C1: with request threads calling get_engine concurrently on the
\* uninitialized module, one EarEngine construction is executed in all, and
\* the callers are given the same engine instance or the same failure.
C1_SingleConstruction ==
    /\ attempts <= 1
    /\ constructions <= 1
    /\ \A t, u \in Answered : eng[t].id = eng[u].id

\* C2: once a failure of the initialization is stored, one initialization
\* attempt has been made and no more than one EarEngine was constructed, and
\* every answer given from then on shows the stored failure.
C2_FailureNotRetried ==
    engine_error # None =>
        /\ attempts = 1
        /\ constructions <= 1
        /\ \A t \in Threads : pc[t] = "done" => resp[t].detail = engine_error

\* C3: a published engine is never replaced, a stored failure is never
\* changed, and an engine and a failure are never both recorded.
C3_TerminalStates ==
    [][/\ engine.id # 0 => engine' = engine
       /\ engine_error # None => engine_error' = engine_error
       /\ ~(engine'.id # 0 /\ engine_error' # None)]_vars

\* The dataset folder yields no usable item and the cache artifact cannot be
\* loaded, in a data directory that holds the model file.
NothingToIndex ==
    /\ base_dir_exists
    /\ model_exists
    /\ IndexDataset(dataset, data_url_prefix).embeddings = <<>>
    /\ ~(cache.state # "absent" /\ CacheLoadable(cache))

\* The request of thread t carries an upload with a file name.
NamedUpload(t) == req[t].has_file /\ req[t].filename # NoName

\* C8: when the dataset yields no usable item and no cache is loadable, no
\* engine is published, the only failure stored is DatasetEmpty, and every
\* query is answered 503 with the DatasetEmpty failure; a query with a named
\* upload against an engine whose index holds no item is answered 503
\* DatasetEmpty too.
C8_DatasetEmptyReported ==
    /\ NothingToIndex =>
          /\ engine.id = 0
          /\ engine_error \in {None, "DatasetEmpty"}
          /\ \A t \in Threads : pc[t] = "done" =>
                /\ resp[t].status = 503
                /\ resp[t].detail = "DatasetEmpty"
    /\ \A t \in Threads :
          (/\ pc[t] = "done"
           /\ eng[t].id # 0
           /\ Len(eng[t].db_metadata) = 0
           /\ NamedUpload(t)) =>
              /\ resp[t].status = 503
              /\ resp[t].kind = "DatasetEmpty"

\* C8 witness: after a rebuild that found nothing, one thread has been shown
\* the DatasetEmpty failure by the initialization it ran and another thread by
\* a later call that ran none.
C8_Witness ==
    /\ NothingToIndex
    /\ dataset # <<>>
    /\ attempts = 1
    /\ engine_error = "DatasetEmpty"
    /\ \A t \in Threads : pc[t] = "done" /\ resp[t].detail = "DatasetEmpty"

\* C9: a query whose extension is in neither allow-list is answered
\* UnsupportedType, and no upload with such an extension is ever written to
\* the staging folder.
C9_UnsupportedNeverStaged ==
    /\ \A t \in Threads :
          (/\ pc[t] \in {"cleanup", "done"}
           /\ eng[t].id # 0
           /\ Len(eng[t].db_metadata) > 0
           /\ NamedUpload(t)
           /\ ~Supported(req[t].filename.ext)) =>
              resp[t].kind = "UnsupportedType"
    /\ \A f \in uploads : Supported(f.name.ext)

\* The files in the upload folder that thread t wrote.
StagedBy(t) == {f \in uploads : f.owner = t}

\* C12: once EarEngine.query has returned, with a result or with any
\* failure, the file the request staged is no longer in the upload folder.
C12_StagedFileRemoved ==
    \A t \in Threads : pc[t] \notin {"staged", "cleanup"} => StagedBy(t) = {}

\* C12 witness: two queries that staged their uploads have returned, one
\* with the unsupported-type failure and one with a decoding failure, and
\* the upload folder is empty.
C12_Witness ==
    /\ uploads = {}
    /\ \E t, u \in Threads :
          /\ pc[t] = "done" /\ resp[t].kind = "UnsupportedType"
          /\ pc[u] = "done" /\ resp[u].kind = "Internal" /\ ~req[u].ok

\* C13: while a request has its upload staged and has not yet read it, the
\* file at its staged path is the one this request wrote: no other request
\* has replaced or removed it, also when the file names are the same.
C13_StagedFileOwned ==
    \A t \in Threads :
        pc[t] = "staged" =>
            /\ StagedFiles(SecureFilename(req[t].filename)) # {}
            /\ StagedFiles(SecureFilename(req[t].filename)) \subseteq StagedBy(t)

\* The status class the route must give to each kind of answer.
StatusOf(kind) ==
    CASE kind \in {"NoFile", "InvalidInput", "UnsupportedType"} -> 400
      [] kind \in {"Unavailable", "DatasetEmpty"} -> 503
      [] kind = "Internal" -> 500
      [] kind = "ok" -> 200

C16_DecodeFailureIsInvalidInput ==
    \A t \in Threads :
        (/\ pc[t] \in {"cleanup", "done"}
         /\ eng[t].id # 0
         /\ Len(eng[t].db_metadata) > 0
         /\ NamedUpload(t)
         /\ Supported(req[t].filename.ext)
         /\ ~req[t].ok
         /\ resp[t].kind # "ok") =>
            /\ resp[t].status = 400
            /\ resp[t].kind = "InvalidInput"

\* The stored failures that are the text of an unexpected exception of the
\* EarEngine constructor (DatasetEmpty is a failure the route names, and the
\* message about the data directory is composed by get_engine).
InternalExceptionTexts == {"ModelMissing"}

\* C22: no answer of query_endpoint carries the text of an unexpected
\* internal exception.
C22_NoExceptionText ==
    \A t \in Threads :
        pc[t] \in {"cleanup", "done"} =>
            resp[t].detail \notin InternalExceptionTexts

\* The answers EarEngine.query gives to the request of thread t on the
\* engine of thread t when no other query runs.
AloneAnswers(t) ==
    IF ~Supported(req[t].filename.ext)
    THEN {Response(400, "UnsupportedType")}
    ELSE IF ~req[t].ok
    THEN {Response(500, "Internal")}
    ELSE SearchAnswers(eng[t], QueryType(req[t].filename.ext), req[t].emb)

\* A step of the query of thread t: staging, search or cleanup.
QueryStep(t) == pc[t] \in {"dispatch", "staged", "cleanup"} /\ pc'[t] # pc[t]

\* C25: no step of a query changes the item list or the embedding matrix of
\* the engine, and every query on an engine, whatever other queries run at
\* the same time, returns an answer it would return when run alone.
C25_QueriesIndependent ==
    [][\A t \in Threads :
          /\ QueryStep(t) => engine' = engine /\ eng' = eng
          /\ (pc[t] = "staged" /\ pc'[t] = "cleanup") =>
                resp'[t] \in AloneAnswers(t)]_vars

(***************************************************************************)
(* Claims about the index and its cache (specification SpecIndex).         *)
(***************************************************************************)
\* The files of the dataset folder that decode and embed, in the order the
\* two loops of the rebuild visit them.
UsableFiles ==
    SelectSeq(AudioFiles(dataset), LAMBDA f : f.ok)
        \o SelectSeq(ImageFiles(dataset), LAMBDA f : f.ok)

Last(seq) == seq[Len(seq)]

\* The metadata item describes file f: its modality, its label and the file
\* name its locator ends with are those of f.
Describes(item, f) ==
    /\ item.type = f.type
    /\ item.label = f.rel[2]
    /\ Last(item.url) = Last(f.rel)

\* The engines of the model: the one each thread holds and the published one.
Engines == {eng[t] : t \in Threads} \cup {engine}

\* C6: after a rebuild, the metadata items are as many as the rows of the
\* embedding matrix, and item i describes the dataset file whose embedding
\* is row i, also when files of the folder were skipped.
C6_ItemsMatchRows ==
    \A e \in Engines :
        e.source = "rebuild" =>
            /\ Len(e.db_metadata) = Len(e.db_tensor)
            /\ Len(e.db_metadata) = Len(UsableFiles)
            /\ \A i \in 1..Len(e.db_metadata) :
                  /\ Describes(e.db_metadata[i], UsableFiles[i])
                  /\ e.db_tensor[i] = UsableFiles[i].emb

\* C6 witness: a rebuild over a folder with a file that fails to decode has
\* indexed the audio file and the image file around it.
C6_Witness ==
    /\ \E k \in 1..Len(dataset) : ~dataset[k].ok
    /\ engine.source = "rebuild"
    /\ Len(engine.db_metadata) >= 2
    /\ Len(engine.db_metadata) < Len(dataset)
    /\ engine.db_metadata[1].type # engine.db_metadata[2].type

\* The URL starts with the segments of the prefix.
HasPrefix(url, prefix) ==
    /\ Len(url) > Len(prefix)
    /\ SubSeq(url, 1, Len(prefix)) = prefix

C10_CorruptCacheIsMiss ==
    [][/\ \A t \in Threads :
             (/\ pc[t] = "index"
              /\ cache.state \in {"corrupt", "partial"}
              /\ restarts' = restarts) =>
                 /\ pc'[t] \in {"index", "rebuild"}
                 /\ engine_error' = engine_error
                 /\ eng'[t] = eng[t]
       /\ \A t \in Threads :
             eng'[t].source = "rebuild" =>
                 /\ eng'[t].origin = NoIndex
                 /\ eng'[t].db_tensor = [i \in 1..Len(UsableFiles) |->
                                            UsableFiles[i].emb]]_vars

\* C10 witness: with a truncated cache artifact on disk left by an earlier
\* deployment, the engine was rebuilt from the dataset folder.
C10_Witness ==
    /\ restarts >= 1
    /\ cache.state = "partial"
    /\ \E t \in Threads :
          /\ pc[t] = "save"
          /\ eng[t].source = "rebuild"
          /\ Len(eng[t].db_metadata) >= 2

\* C14: a thread about to load the cache artifact never finds a partially
\* written artifact at the cache path.
C14_NoPartialCacheSeen ==
    \A t \in Threads : pc[t] = "index" => cache.state # "partial"

\* C17: every item of an index loaded from the cache artifact that stands for
\* a file of the dataset folder has the locator made of the data URL prefix
\* in force and the path of that file relative to the dataset root, whatever
\* prefix the cache was written under.
C17_LocatorRederived ==
    \A e \in Engines :
        e.source = "cache" =>
            /\ Len(e.db_metadata) = Len(e.origin.metadata)
            /\ \A i \in 1..Len(e.db_metadata) :
                  (i <= Len(UsableFiles) /\ e.db_tensor[i] = UsableFiles[i].emb)
                      => e.db_metadata[i].url
                             = data_url_prefix \o UsableFiles[i].rel

\* C18: the published engine never holds an embedding matrix with rows of
\* another dimension than the one its encoder produces: a cache artifact of
\* another dimension is not loaded.
C18_DimensionFailsClosed ==
    engine.id # 0 => Multipliable(engine.db_tensor)

\* The locators of the entries of a response.
ReturnedUrls(r) ==
    {r.result.same_modality[i].url : i \in 1..Len(r.result.same_modality)}
        \cup {r.result.cross_modality[i].url :
                 i \in 1..Len(r.result.cross_modality)}

\* C19: every item of the published index, rebuilt or loaded from the cache
\* artifact, and every entry of a search result has a locator that starts
\* with the data URL prefix in force and goes on with a path that has no ".."
\* segment.
C19_LocatorsUnderPrefix ==
    /\ engine.id # 0 =>
          \A i \in 1..Len(engine.db_metadata) :
              /\ HasPrefix(engine.db_metadata[i].url, data_url_prefix)
              /\ \A k \in 1..Len(engine.db_metadata[i].url) :
                    engine.db_metadata[i].url[k] # ".."
    /\ \A t \in Threads :
          \A url \in ReturnedUrls(resp[t]) : HasPrefix(url, data_url_prefix)

\* The positions of index e that stand for dataset file f: the item names
\* the file and the row is its embedding.
PositionsOf(e, f) ==
    {i \in 1..Len(e.db_metadata) :
        /\ i <= Len(e.db_tensor)
        /\ Describes(e.db_metadata[i], f)
        /\ e.db_tensor[i] = f.emb}

\* C20: in a rebuilt index a dataset file that fails to decode or embed has
\* neither an item nor a row, every other file of the folder has exactly one
\* of each, and the rebuild fails with DatasetEmpty only when no file of the
\* folder could be indexed.
C20_FailingFilesSkipped ==
    /\ \A e \in Engines :
          e.source = "rebuild" =>
              /\ Len(e.db_metadata) = Len(e.db_tensor)
              /\ \A k \in 1..Len(dataset) :
                    Cardinality(PositionsOf(e, dataset[k]))
                        = IF dataset[k].ok THEN 1 ELSE 0
              /\ \A i \in 1..Len(e.db_metadata) :
                    \E k \in 1..Len(dataset) : i \in PositionsOf(e, dataset[k])
    /\ engine_error = "DatasetEmpty" => UsableFiles = <<>>

\* C20 witness: the rebuild over a folder of two audio files, the first of
\* which decodes and the second does not, and one image file was published
\* with the audio file that decodes and the image file.
C20_Witness ==
    /\ Len(dataset) = 3
    /\ Len(AudioFiles(dataset)) = 2
    /\ AudioFiles(dataset)[1].ok /\ ~AudioFiles(dataset)[2].ok
    /\ engine.source = "rebuild"
    /\ Len(engine.db_metadata) = 2
    /\ PositionsOf(engine, AudioFiles(dataset)[1]) = {1}
    /\ PositionsOf(engine, ImageFiles(dataset)[1]) = {2}

\* C23: a thread that leaves the writing of the cache artifact, whether the
\* write succeeded or failed, goes on to publish the engine it rebuilt, with
\* one item and one row for every usable dataset file, and records no
\* failure.
C23_SaveFailureTolerated ==
    [][\A t \in Threads :
          (/\ pc[t] \in {"save", "save2"}
           /\ pc'[t] \notin {"save", "save2"}
           /\ restarts' = restarts) =>
              /\ pc'[t] = "publish"
              /\ engine_error' = engine_error
              /\ eng'[t] = eng[t]
              /\ eng[t].source = "rebuild"
              /\ Len(eng[t].db_metadata) = Len(UsableFiles)
              /\ Len(eng[t].db_metadata) >= 1
              /\ eng[t].db_tensor = [i \in 1..Len(UsableFiles) |->
                                        UsableFiles[i].emb]]_vars

\* C23 witness: in a first process life whose write of the cache artifact
\* failed, the rebuilt engine is published and has answered a query with a
\* result.
C23_Witness ==
    /\ restarts = 0
    /\ cache.state \in {"absent", "partial"}
    /\ engine.source = "rebuild"
    /\ engine_error = None
    /\ \E t \in Threads :
          /\ pc[t] = "done"
          /\ resp[t].status = 200
          /\ Len(resp[t].result.same_modality) >= 1

\* The modality the extension of a file name stands for, whatever its case;
\* "none" for every other extension.
ExtensionModality(ext) ==
    CASE ext \in {"jpg", "JPG", "jpeg", "JPEG", "png", "PNG"} -> "image"
      [] ext \in {"wav", "WAV", "mp3", "MP3", "webm", "WEBM", "mp4", "MP4",
                  "m4a", "M4A"} -> "audio"
      [] OTHER -> "none"

C27_ItemsEqualRows ==
    engine.id # 0 => Len(engine.db_metadata) = Len(engine.db_tensor)

\* The construction of engine e has completed: its index is the whole cache
\* artifact it loaded, or the items and rows of all usable dataset files.
Constructed(e) ==
    \/ /\ e.source = "cache"
       /\ e.db_tensor = e.origin.tensor
       /\ Len(e.db_metadata) = Len(e.origin.metadata)
    \/ /\ e.source = "rebuild"
       /\ Len(e.db_metadata) = Len(UsableFiles)
       /\ e.db_tensor = [i \in 1..Len(UsableFiles) |-> UsableFiles[i].emb]

\* C28: the engine in _engine, and the engine any request works with, is one
\* whose construction has completed, and the item list and the embedding
\* matrix of a constructed engine never change.
C28_BuiltBeforeVisible ==
    [][/\ engine'.id # 0 => Constructed(engine')
       /\ engine.id # 0 /\ engine'.id = engine.id => engine' = engine
       /\ \A t \in Threads :
             /\ (pc'[t] \in {"dispatch", "staged", "cleanup", "done"}
                    /\ eng'[t].id # 0) => Constructed(eng'[t])
             /\ (eng[t].id # 0 /\ Constructed(eng[t])
                    /\ eng'[t].id = eng[t].id) => eng'[t] = eng[t]]_vars

\* C28 witness: a request was answered from the published engine while
\* another thread is still constructing an engine of its own.
C28_Witness ==
    \E t, u \in Threads :
        /\ pc[t] = "done"
        /\ resp[t].status = 200
        /\ eng[t] = engine
        /\ engine.source = "rebuild"
        /\ pc[u] \in {"index", "rebuild"}
        /\ eng[u].id # 0
        /\ eng[u].source = "none"

(***************************************************************************)
(* Claims about the portfolio store (specification SpecStore).             *)
(***************************************************************************)
\* The ids of the items in the data file.
StoredIds == {portfolio_json.items[i].id : i \in 1..Len(portfolio_json.items)}

\* C29: every item create_item has returned, and delete_item has not
\* removed, is in the item list of the data file, whatever calls of readers
\* and writers run at the same time.
C29_CreatedItemsStay ==
    \A id \in created \ deleted : portfolio_json.exists /\ id \in StoredIds

(***************************************************************************)
(* Claims about the admin views (specification SpecAdmin).                 *)
(***************************************************************************)
\* C30: a request that created, updated or deleted a portfolio item carried
\* a session that is authenticated as admin and holds the csrf_token the
\* request submitted, and no successful logout had been sent for that
\* session.
C30_ChangesNeedLiveSession ==
    a_req.changed =>
        /\ a_req.session.admin_authenticated
        /\ ValidateCsrf(a_req.session, a_req.csrf_token)
        /\ a_req.session \notin logged_out

====
